---- MODULE Spec2Model ----
(***************************************************************************)
(* A model of go-panos: the session handshake (NewSession) and the object  *)
(* operations of panos.go and the address file, as one client that sends   *)
(* HTTP requests to a device and classifies the XML envelopes it gets      *)
(* back.  The device is the environment: every response is a               *)
(* nondeterministic choice among a transport failure, an unparseable body  *)
(* and a parsed envelope.  Strings are the program's own strings: xpaths,  *)
(* element bodies and error texts are built by concatenation exactly as    *)
(* fmt.Sprintf builds them.                                                *)
(***************************************************************************)
EXTENDS Naturals, Sequences, FiniteSets, TLC

VARIABLES
    p,       \* the *PaloAlto session the caller holds: Nil or Some(record)
    pc,      \* "idle", the reply the running invocation waits for, "done" or "crashed"
    call,    \* the running (or last) invocation: its name and arguments
    sent,    \* the requests the invocation has sent, in order
    recv,    \* the responses it has received, in order
    locals,  \* the invocation's locals that outlive a request: key, info, adObj, agObj, sObj, sgObj
    ret,     \* what the invocation returned: pending, returned (err, val) or panic
    peer,    \* the frame of a second invocation on the same session, while it does not run
    alone    \* Nil, or the frame an invocation ended with when it ran with no other beside it

vars == <<p, pc, call, sent, recv, locals, ret, peer, alone>>

----------------------------------------------------------------------------
(* Bounds and input sets *)

\* longest listing a response carries
MaxEntries == 1

\* longest listing of tags a response carries
MaxTags == 2

Names == {"web", "db"}
ObjectArgs == {"web"}
DeviceGroupArgs == {<<>>, <<"dg1">>}
TagNames == {"t1"}
ApplyTagArgs == {"t1, t2"}
RemoveTagArgs == {"t1"}
SerialArgs == {"0001"}
Hosts == {"fw"}
Keys == {"k1"}
Platforms == {"m", "vm", ""}
StatusTexts == {"Connected : yes", "Connected : no", ""}
ErrCodes == {"7", "99"}

----------------------------------------------------------------------------
(* Go values *)

\* a nil pointer / nil error, and a non-nil one
Nil == <<>>
Some(v) == <<v>>

\* errors.New / fmt.Errorf: a non-nil error with its text
Err(text) == <<text>>

\* strings.Contains
Contains(s, sub) ==
    \E i \in 1..(Len(s) + 1) :
        /\ i + Len(sub) <= Len(s) + 1
        /\ SubSeq(s, i, i + Len(sub) - 1) = sub

\* all sequences over S of length at most n
RECURSIVE SeqsUpTo(_, _)
SeqsUpTo(S, n) ==
    IF n = 0 THEN {<<>>}
    ELSE LET shorter == SeqsUpTo(S, n - 1)
         IN shorter \cup {Append(s, x) : s \in {t \in shorter : Len(t) = n - 1}, x \in S}

\* a map lookup q[k] on a Go map[string]string: "" when the key is absent
Param(q, k) == IF k \in DOMAIN q THEN q[k] ELSE ""

headers == [ContentType |-> "application/xml"]

errorCodes ==
    ("400" :> "Bad request - Returned when a required parameter is missing, an illegal parameter value is used") @@
    ("403" :> "Forbidden - Returned for authentication or authorization errors including invalid key, insufficient admin access rights") @@
    ("1" :> "Unknown command - The specific config or operational command is not recognized") @@
    ("2" :> "Internal error - Check with technical support when seeing these errors") @@
    ("3" :> "Internal error - Check with technical support when seeing these errors") @@
    ("4" :> "Internal error - Check with technical support when seeing these errors") @@
    ("5" :> "Internal error - Check with technical support when seeing these errors") @@
    ("6" :> "Bad Xpath - The xpath specified in one or more attributes of the command is invalid. Check the API browser for proper xpath values") @@
    ("7" :> "Object not present - Object specified by the xpath is not present. For example, entry[@name='value'] where no object with name 'value' is present") @@
    ("8" :> "Object not unique - For commands that operate on a single object, the specified object is not unique") @@
    ("9" :> "Internal error - Check with technical support when seeing these errors") @@
    ("10" :> "Reference count not zero - Object cannot be deleted as there are other objects that refer to it. For example, address object still in use in policy") @@
    ("11" :> "Internal error - Check with technical support when seeing these errors") @@
    ("12" :> "Invalid object - Xpath or element values provided are not complete") @@
    ("13" :> "Operation failed - A descriptive error message is returned in the response") @@
    ("14" :> "Operation not possible - Operation is not possible. For example, moving a rule up one position when it is already at the top") @@
    ("15" :> "Operation denied - For example, Admin not allowed to delete own account, Running a command that is not allowed on a passive device") @@
    ("16" :> "Unauthorized - The API role does not have access rights to run this query") @@
    ("17" :> "Invalid command - Invalid command or parameters") @@
    ("18" :> "Malformed command - The XML is malformed") @@
    ("19" :> "Success - Command completed successfully") @@
    ("20" :> "Success - Command completed successfully") @@
    ("21" :> "Internal error - Check with technical support when seeing these errors") @@
    ("22" :> "Session timed out - The session for this query timed out")

\* errorCodes[code] on the Go map: the zero value "" for a code outside the table
ErrorCodeMessage(code) == IF code \in DOMAIN errorCodes THEN errorCodes[code] ELSE ""

\* fmt.Errorf("error code %s: %s", Code, errorCodes[Code])
CodeError(code) == Err("error code " \o code \o ": " \o ErrorCodeMessage(code))

\* fmt.Errorf("error code %s: %s (keygen)", ...) and "(show system info)" in NewSession
StepCodeError(code, step) ==
    Err("error code " \o code \o ": " \o ErrorCodeMessage(code) \o " (" \o step \o ")")

----------------------------------------------------------------------------
(* Strings *)

\* the index of the first sep in s at or after i, or 0
RECURSIVE IndexFrom(_, _, _)
IndexFrom(s, sep, i) ==
    IF i > Len(s) THEN 0
    ELSE IF SubSeq(s, i, i) = sep THEN i
    ELSE IndexFrom(s, sep, i + 1)

\* strings.Split(s, sep) for a one-character sep: always at least one piece
RECURSIVE Split(_, _)
Split(s, sep) ==
    LET i == IndexFrom(s, sep, 1)
    IN IF i = 0 THEN <<s>>
       ELSE <<SubSeq(s, 1, i - 1)>> \o Split(SubSeq(s, i + 1, Len(s)), sep)

\* strings.TrimSpace, for the blank as the only white space
RECURSIVE TrimSpace(_)
TrimSpace(s) ==
    IF Len(s) = 0 THEN s
    ELSE IF SubSeq(s, 1, 1) = " " THEN TrimSpace(SubSeq(s, 2, Len(s)))
    ELSE IF SubSeq(s, Len(s), Len(s)) = " " THEN TrimSpace(SubSeq(s, 1, Len(s) - 1))
    ELSE s

\* the concatenation of the strings of a sequence, each wrapped by pre and post
RECURSIVE Wrapped(_, _, _)
Wrapped(xs, pre, post) ==
    IF xs = <<>> THEN ""
    ELSE pre \o xs[1] \o post \o Wrapped(Tail(xs), pre, post)

\* sub occurs in s at index i
HasAt(s, i, sub) ==
    /\ i >= 1
    /\ i + Len(sub) <= Len(s) + 1
    /\ SubSeq(s, i, i + Len(sub) - 1) = sub

\* the index of the first occurrence of sub in s at or after i, or 0
RECURSIVE IndexOfSub(_, _, _)
IndexOfSub(s, sub, i) ==
    IF i + Len(sub) > Len(s) + 1 THEN 0
    ELSE IF HasAt(s, i, sub) THEN i
    ELSE IndexOfSub(s, sub, i + 1)

----------------------------------------------------------------------------
(* encoding/xml: what xml.Unmarshal makes of the children of an <entry> *)

\* the predefined entities of XML: <<entity, character>>
Entities ==
    {<<"&amp;", "&">>, <<"&lt;", "<">>, <<"&gt;", ">">>, <<"&apos;", "'">>, <<"&quot;", "\"">>}

\* character data as the decoder returns it: every entity replaced; an
\* ampersand that starts no entity is a syntax error (ok is FALSE)
RECURSIVE Unescape(_)
Unescape(text) ==
    LET i == IndexFrom(text, "&", 1)
    IN IF i = 0 THEN [ok |-> TRUE, text |-> text]
       ELSE IF \A e \in Entities : ~HasAt(text, i, e[1]) THEN [ok |-> FALSE, text |-> ""]
       ELSE LET e == CHOOSE x \in Entities : HasAt(text, i, x[1])
                r == Unescape(SubSeq(text, i + Len(e[1]), Len(text)))
            IN [ok |-> r.ok, text |-> SubSeq(text, 1, i - 1) \o e[2] \o r.text]

\* the child elements <tag>text</tag> of an entry, in document order; text
\* between the children is skipped.  ok is FALSE for a syntax error: a start
\* tag that is not closed, an ampersand that starts no entity, or a "<"
\* inside character data (the bodies built here hold no nested element)
RECURSIVE ParseChildren(_)
ParseChildren(s) ==
    LET i == IndexFrom(s, "<", 1)
        j == IndexFrom(s, ">", i + 1)
        tag == SubSeq(s, i + 1, j - 1)
        k == IndexOfSub(s, "</" \o tag \o ">", j + 1)
        text == Unescape(SubSeq(s, j + 1, k - 1))
        rest == ParseChildren(SubSeq(s, k + Len(tag) + 3, Len(s)))
    IN IF i = 0 THEN [ok |-> TRUE, fields |-> <<>>]
       ELSE IF j = 0 \/ k = 0 THEN [ok |-> FALSE, fields |-> <<>>]
       ELSE IF IndexFrom(SubSeq(s, j + 1, k - 1), "<", 1) # 0 THEN [ok |-> FALSE, fields |-> <<>>]
       ELSE IF ~text.ok THEN [ok |-> FALSE, fields |-> <<>>]
       ELSE [ok |-> rest.ok, fields |-> <<[tag |-> tag, text |-> text.text]>> \o rest.fields]

\* the string field of a struct with the tag `xml:"<tag>,omitempty"`: the
\* text of the last child of that name, "" when there is none
RECURSIVE Field(_, _)
Field(fields, tag) ==
    IF fields = <<>> THEN ""
    ELSE IF fields[Len(fields)].tag = tag THEN fields[Len(fields)].text
    ELSE Field(SubSeq(fields, 1, Len(fields) - 1), tag)

----------------------------------------------------------------------------
(* The device's responses: what r.Send returns *)

\* the request could not be carried out: resp.Error is set and there is no body
TransportFailure == [Error |-> Err("transport failure"), Body |-> [kind |-> "empty"]]

\* a body that is not the XML of a <response> envelope
Garbage == [Error |-> Nil, Body |-> [kind |-> "garbage"]]

\* a <response status=".." code=".."> envelope with its <result> children
Envelope(status, code, result) ==
    [Error |-> Nil,
     Body |-> [kind |-> "xml", Status |-> status, Code |-> code, result |-> result]]

Failures == {TransportFailure, Garbage}

ErrorEnvelopes == {Envelope("error", c, [msg |-> "failed"]) : c \in ErrCodes}

\* responses to a set/edit/delete/commit request
MutationResponses ==
    Failures \cup ErrorEnvelopes \cup {Envelope("success", "20", [msg |-> "command succeeded"])}

\* an <entry name="..."> of a listing, with the XML of its children
Entry(name, inner) == [Name |-> name, Inner |-> inner]

Listings == SeqsUpTo({Entry(n, "") : n \in Names}, MaxEntries)

\* responses to a get request of a listing
ListingResponses ==
    Failures \cup ErrorEnvelopes \cup {Envelope("success", "19", [entries |-> l]) : l \in Listings}

KeygenResponses ==
    Failures \cup {Envelope("error", c, [key |-> ""]) : c \in {"403"}}
             \cup {Envelope("success", "", [key |-> k]) : k \in Keys}

NoInfo == [platform |-> "", model |-> "", serial |-> "", swversion |-> ""]

InfoResponses ==
    Failures \cup {Envelope("error", c, NoInfo) : c \in {"17"}}
             \cup {Envelope("success", "",
                            [platform |-> f, model |-> "PA-VM", serial |-> "0007", swversion |-> "7.0.1"]) :
                   f \in Platforms}

StatusResponses ==
    Failures \cup {Envelope("error", "17", [data |-> d]) : d \in StatusTexts}
             \cup {Envelope("success", "", [data |-> d]) : d \in StatusTexts}

\* an entry of the body is not well-formed XML
BadEntry(body) ==
    /\ "entries" \in DOMAIN body.result
    /\ \E k \in 1..Len(body.result.entries) : ~ParseChildren(body.result.entries[k].Inner).ok

\* xml.Unmarshal(body, &v): an error for an empty or malformed body, else nil
Unmarshal(body) ==
    CASE body.kind = "empty" -> Err("EOF")
      [] body.kind = "garbage" -> Err("XML syntax error")
      [] BadEntry(body) -> Err("XML syntax error")
      [] OTHER -> Nil

----------------------------------------------------------------------------
(* Return values *)

Pending == [state |-> "pending", err |-> Nil, val |-> Nil]
Returned(err, val) == [state |-> "returned", err |-> err, val |-> val]
\* a runtime panic (nil pointer dereference): the invocation never returns
Panicked == [state |-> "panic", err |-> Nil, val |-> Nil]

NoLocals == [key |-> Nil, info |-> Nil, adObj |-> Nil, agObj |-> Nil, sObj |-> Nil, sgObj |-> Nil]
NoCall == [op |-> "none"]

\* the frame of the running invocation, and the frame of none
Frame == [pc |-> pc, call |-> call, sent |-> sent, recv |-> recv, locals |-> locals, ret |-> ret]
IdleFrame ==
    [pc |-> "idle", call |-> NoCall, sent |-> <<>>, recv |-> <<>>, locals |-> NoLocals,
     ret |-> Pending]

\* the handler returns without sending anything more
Return(err, val) ==
    /\ ret' = Returned(err, val)
    /\ pc' = "done"
    /\ UNCHANGED <<peer, alone>>

\* r.Send(...): the handler sends req and waits at label
Send(req, label) ==
    /\ sent' = Append(sent, req)
    /\ pc' = label
    /\ ret' = Pending
    /\ UNCHANGED <<peer, alone>>

\* the caller has taken the result: the invocation's frame is gone, and the
\* session is all that is left of it
Discard ==
    /\ pc = "done"
    /\ pc' = "idle"
    /\ call' = NoCall
    /\ sent' = <<>>
    /\ recv' = <<>>
    /\ locals' = NoLocals
    /\ ret' = Pending
    /\ UNCHANGED <<p, peer, alone>>

\* a fresh invocation c starts: nothing sent, nothing received
Start(c) ==
    /\ pc = "idle"
    /\ call' = c
    /\ recv' = <<>>
    /\ locals' = NoLocals

\* a fresh invocation that returns before it sends anything
Reject(c, err) ==
    /\ Start(c)
    /\ sent' = <<>>
    /\ Return(err, Nil)
    /\ UNCHANGED p

\* First with the request parameters appended to the URI of the session
FirstEditsURI(c, req, label) ==
    /\ Start(c)
    /\ sent' = <<req>>
    /\ pc' = label
    /\ ret' = Pending
    /\ p' = <<[p[1] EXCEPT !.URI = @ \o "type=config"]>>
    /\ UNCHANGED <<peer, alone>>

\* a fresh invocation whose first request is req
First(c, req, label) ==
    /\ Start(c)
    /\ sent' = <<req>>
    /\ pc' = label
    /\ ret' = Pending
    /\ UNCHANGED <<p, peer, alone>>

----------------------------------------------------------------------------
(* NewSession *)

ApiURI(host) == "https://" \o host \o "/api/?"

KeygenRequest(host, user, passwd) ==
    [method |-> "get",
     uri |-> "https://" \o host \o "/api/?type=keygen&user=" \o user \o "&password=" \o passwd,
     headers |-> Nil, query |-> Nil]

OpRequest(host, key, cmd) ==
    [method |-> "get",
     uri |-> ApiURI(host) \o "&key=" \o key \o "&type=op&cmd=" \o cmd,
     headers |-> Nil, query |-> Nil]

\* the error the keygen step ends with, or Nil
KeygenError(resp) ==
    IF resp.Error # Nil THEN resp.Error
    ELSE IF Unmarshal(resp.Body) # Nil THEN Unmarshal(resp.Body)
    ELSE IF resp.Body.Status # "success" THEN StepCodeError(resp.Body.Code, "keygen")
    ELSE Nil

\* InfoError without its status check
InfoErrorSkipsStatus(resp) ==
    IF resp.Error # Nil THEN resp.Error
    ELSE IF Unmarshal(resp.Body) # Nil THEN Unmarshal(resp.Body)
    ELSE Nil

\* the error the system-info step ends with, or Nil
InfoError(resp) ==
    IF resp.Error # Nil THEN resp.Error
    ELSE IF Unmarshal(resp.Body) # Nil THEN Unmarshal(resp.Body)
    ELSE IF resp.Body.Status # "success" THEN StepCodeError(resp.Body.Code, "show system info")
    ELSE Nil

\* StatusError with the status check of the first two steps
StatusErrorChecksStatus(resp) ==
    IF resp.Error # Nil THEN resp.Error
    ELSE IF Unmarshal(resp.Body) # Nil THEN Unmarshal(resp.Body)
    ELSE IF resp.Body.Status # "success" THEN StepCodeError(resp.Body.Code, "show panorama-status")
    ELSE Nil

\* the error the panorama-status step ends with, or Nil: the status is not looked at
StatusError(resp) ==
    IF resp.Error # Nil THEN resp.Error
    ELSE IF Unmarshal(resp.Body) # Nil THEN Unmarshal(resp.Body)
    ELSE Nil

\* DeviceTypeOf with a substring test in place of the equality
DeviceTypeOfContains(platform) == IF Contains(platform, "m") THEN "panorama" ELSE "panos"

\* deviceType := "panos"; if info.Platform == "m" { deviceType = "panorama" }
DeviceTypeOf(platform) == IF platform = "m" THEN "panorama" ELSE "panos"

\* status := false; if strings.Contains(pan.Data, ": yes") { status = true }
PanoramaFlag(data) == Contains(data, ": yes")

\* the session NewSession builds from key, info and pan
BuildSession(host, key, info, data) ==
    [Host |-> host,
     Key |-> key,
     URI |-> ApiURI(host),
     Platform |-> info.platform,
     Model |-> info.model,
     Serial |-> info.serial,
     SoftwareVersion |-> info.swversion,
     DeviceType |-> DeviceTypeOf(info.platform),
     Panorama |-> PanoramaFlag(data)]

NewSession(host, user, passwd) ==
    /\ p = Nil
    /\ Start([op |-> "NewSession", host |-> host, user |-> user, passwd |-> passwd])
    /\ sent' = <<KeygenRequest(host, user, passwd)>>
    /\ pc' = "keygen"
    /\ ret' = Pending
    /\ UNCHANGED <<p, peer, alone>>

NewSessionKeygen(resp) ==
    /\ pc = "keygen"
    /\ recv' = Append(recv, resp)
    /\ IF KeygenError(resp) # Nil
       THEN Return(KeygenError(resp), Nil) /\ UNCHANGED <<sent, locals>>
       ELSE /\ locals' = [locals EXCEPT !.key = Some(resp.Body.result.key)]
            /\ Send(OpRequest(call.host, resp.Body.result.key,
                              "<show><system><info></info></system></show>"), "info")
    /\ UNCHANGED <<p, call>>

NewSessionInfo(resp) ==
    /\ pc = "info"
    /\ recv' = Append(recv, resp)
    /\ IF InfoError(resp) # Nil
       THEN Return(InfoError(resp), Nil) /\ UNCHANGED <<sent, locals>>
       ELSE /\ locals' = [locals EXCEPT !.info = Some(resp.Body.result)]
            /\ Send(OpRequest(call.host, locals.key[1],
                              "<show><panorama-status></panorama-status></show>"), "panstatus")
    /\ UNCHANGED <<p, call>>

NewSessionStatus(resp) ==
    /\ pc = "panstatus"
    /\ recv' = Append(recv, resp)
    /\ IF StatusError(resp) # Nil
       THEN Return(StatusError(resp), Nil) /\ UNCHANGED p
       ELSE LET s == BuildSession(call.host, locals.key[1], locals.info[1], resp.Body.result.data)
            IN /\ Return(Nil, Some(s))
               /\ p' = Some(s)
    /\ UNCHANGED <<call, sent, locals>>

----------------------------------------------------------------------------
(* Requests and their classification *)

\* the session behind the receiver p of a method call
S == p[1]

\* Request with one query map for the whole package: the keys another
\* invocation's last request set are still in it
RequestSharesQuery(method, hdrs, query) ==
    LET last == peer.sent[Len(peer.sent)]
    IN [method |-> method, uri |-> S.URI, headers |-> hdrs,
        query |-> IF peer.sent = <<>> \/ last.query = Nil
                  THEN Some(query)
                  ELSE Some(query @@ last.query[1])]

\* r := rested.NewRequest(); query := map[string]string{...}: every call of a
\* method builds its request and its query map anew
Request(method, hdrs, query) ==
    [method |-> method, uri |-> S.URI, headers |-> hdrs, query |-> Some(query)]

GetRequest(xpath) ==
    Request("get", Some(headers),
            [type |-> "config", action |-> "get", xpath |-> xpath, key |-> S.Key])

SetRequest(xpath, element) ==
    Request("post", Nil,
            [type |-> "config", action |-> "set", xpath |-> xpath, element |-> element, key |-> S.Key])

DeleteRequest(method, xpath) ==
    Request(method, Nil,
            [type |-> "config", action |-> "delete", xpath |-> xpath, key |-> S.Key])

EditRequest(xpath, element) ==
    Request("post", Nil,
            [type |-> "config", action |-> "edit", element |-> element, key |-> S.Key, xpath |-> xpath])

\* the query parameters of a request ("" for one that is absent)
QueryOf(req) == IF req.query = Nil THEN [k \in {} |-> ""] ELSE req.query[1]
XpathOf(req) == Param(QueryOf(req), "xpath")
ActionOf(req) == Param(QueryOf(req), "action")
TypeOf(req) == Param(QueryOf(req), "type")

\* what a create/delete/edit/commit operation returns for its response:
\* resp.Error, else the Unmarshal error, else the coded error, else nil
MutationError(resp) ==
    IF resp.Error # Nil THEN resp.Error
    ELSE IF Unmarshal(resp.Body) # Nil THEN Unmarshal(resp.Body)
    ELSE IF resp.Body.Status # "success" THEN CodeError(resp.Body.Code)
    ELSE Nil

\* what a listing operation returns for its response: resp.Error is not
\* looked at, the body of a failed transport is empty and does not parse
ListingError(resp) ==
    IF Unmarshal(resp.Body) # Nil THEN Unmarshal(resp.Body)
    ELSE IF resp.Body.Status # "success" THEN CodeError(resp.Body.Code)
    ELSE Nil

tagColors ==
    ("Red" :> "color1") @@ ("Green" :> "color2") @@ ("Blue" :> "color3") @@
    ("Yellow" :> "color4") @@ ("Copper" :> "color5") @@ ("Orange" :> "color6") @@
    ("Purple" :> "color7") @@ ("Gray" :> "color8") @@ ("Light Green" :> "color9") @@
    ("Cyan" :> "color10") @@ ("Light Gray" :> "color11") @@ ("Blue Gray" :> "color12") @@
    ("Lime" :> "color13") @@ ("Black" :> "color14") @@ ("Gold" :> "color15") @@
    ("Brown" :> "color16")

\* tagColors[color] on the Go map: "" for a name outside the table
TagColorCode(color) == IF color \in DOMAIN tagColors THEN tagColors[color] ELSE ""

\* for k, v := range tagColors { if t.Color == v { tcolor = k } }: tcolor
\* keeps the value it had when no color of the table has that code
ColorName(code, tcolor) ==
    IF \E k \in DOMAIN tagColors : tagColors[k] = code
    THEN CHOOSE k \in DOMAIN tagColors : tagColors[k] = code
    ELSE tcolor

\* the loop of Tags over parsedTags.Tags; tcolor is declared once, before the loop
RECURSIVE TagsOf(_, _)
TagsOf(entries, tcolor) ==
    IF entries = <<>> THEN <<>>
    ELSE LET f == ParseChildren(entries[1].Inner).fields
             c == ColorName(Field(f, "color"), tcolor)
         IN <<[Name |-> entries[1].Name, Color |-> c, Comments |-> Field(f, "comments")]>>
            \o TagsOf(Tail(entries), c)

\* the Address xml.Unmarshal fills from an entry of result>address
DecodeAddress(e) ==
    LET f == ParseChildren(e.Inner).fields
    IN [Name |-> e.Name,
        IPAddress |-> Field(f, "ip-netmask"),
        IPRange |-> Field(f, "ip-range"),
        FQDN |-> Field(f, "fqdn"),
        Description |-> Field(f, "description")]

\* the value a listing operation builds from the entries of its response
Decoded(op, entries) ==
    CASE op = "Addresses" -> [i \in 1..Len(entries) |-> DecodeAddress(entries[i])]
      [] op = "Tags" -> TagsOf(entries, "")
      [] OTHER -> entries

\* the pointer a listing operation returns: nil with an error, else its value
ListingValue(op, resp) ==
    IF ListingError(resp) # Nil THEN Nil ELSE Some(Decoded(op, resp.Body.result.entries))

\* an operation that checks its arguments, then sends one request
Mutate(c, err, req) ==
    IF err # Nil THEN Reject(c, err) ELSE First(c, req, "reply")

\* an operation that checks its arguments, then sends one listing request
List(c, err, req) ==
    IF err # Nil THEN Reject(c, err) ELSE First(c, req, "list")

\* Reply with a compensating delete of the registration after a failed attachment
ReplyRollsBack(resp) ==
    /\ pc = "reply"
    /\ recv' = Append(recv, resp)
    /\ IF call.op = "AddDevice" /\ Len(sent) = 2 /\ MutationError(resp) # Nil
       THEN Send(DeleteRequest("post", "/config/mgt-config/devices/entry[@name='"
                                       \o call.serial \o "']"), "reply")
       ELSE Return(MutationError(resp), Nil) /\ UNCHANGED sent
    /\ UNCHANGED <<p, call, locals>>

\* the response to the single (or last) request of a mutation
Reply(resp) ==
    /\ pc = "reply"
    /\ recv' = Append(recv, resp)
    /\ Return(MutationError(resp), Nil)
    /\ UNCHANGED <<p, call, sent, locals>>

----------------------------------------------------------------------------
(* XPath selection *)

Localhost == "/config/devices/entry[@name='localhost.localdomain']"

EntryNamed(name) == "/entry[@name='" \o name \o "']"

VsysXpath(category) == Localhost \o "/vsys/entry[@name='vsys1']/" \o category

DeviceGroupXpath(dg) == Localhost \o "/device-group" \o EntryNamed(dg)

MissingDeviceGroup == Err("you must specify a device-group when connected to a Panorama device")

\* NeedsDeviceGroup without the check
NeedsDeviceGroupNever(devicegroup) == Nil

\* if p.DeviceType == "panorama" && len(devicegroup) <= 0 { return errors.New(...) }
NeedsDeviceGroup(devicegroup) ==
    IF S.DeviceType = "panorama" /\ Len(devicegroup) <= 0 THEN MissingDeviceGroup ELSE Nil

\* ObjectXpath without the assignment of the Panorama branch
ObjectXpathPanosOnly(category, name, devicegroup) ==
    IF S.DeviceType = "panos" THEN VsysXpath(category) \o EntryNamed(name) ELSE ""

\* var xpath string, then the two assignments of a create or delete operation
ObjectXpath(category, name, devicegroup) ==
    LET x0 == ""
        x1 == IF S.DeviceType = "panos"
              THEN VsysXpath(category) \o EntryNamed(name)
              ELSE x0
        x2 == IF S.DeviceType = "panorama" /\ Len(devicegroup) > 0
              THEN DeviceGroupXpath(devicegroup[1]) \o "/" \o category \o EntryNamed(name)
              ELSE x1
    IN x2

\* OnlyPanorama without the check
OnlyPanoramaUnchecked(text) == Nil

\* if p.DeviceType == "panos" { return errors.New(...) } of a shared operation
OnlyPanorama(text) == IF S.DeviceType = "panos" THEN Err(text) ELSE Nil

\* if p.DeviceType == "panorama" { xpath = "/config/shared/..." }
SharedXpath(category, name) ==
    IF S.DeviceType = "panorama"
    THEN "/config/shared/" \o category \o EntryNamed(name)
    ELSE ""

\* if p.DeviceType != "panorama" && len(devicegroup) > 0 { return nil, errors.New(...) }
ListRejects(devicegroup) ==
    IF S.DeviceType # "panorama" /\ Len(devicegroup) > 0
    THEN Err("you must be connected to a Panorama device when specifying a device-group")
    ELSE Nil

\* ListXpath without the assignment for a device-group
ListXpathIgnoresDeviceGroup(category, devicegroup) ==
    LET x0 == "/config/devices/entry//" \o category
        x1 == IF S.DeviceType = "panos" /\ S.Panorama = TRUE
              THEN "/config/panorama//" \o category
              ELSE x0
        x2 == IF S.DeviceType = "panos" /\ S.Panorama = FALSE
              THEN VsysXpath(category)
              ELSE x1
    IN x2

\* the xpath of Addresses and AddressGroups
ListXpath(category, devicegroup) ==
    LET x0 == "/config/devices/entry//" \o category
        x1 == IF S.DeviceType = "panos" /\ S.Panorama = TRUE
              THEN "/config/panorama//" \o category
              ELSE x0
        x2 == IF S.DeviceType = "panos" /\ S.Panorama = FALSE
              THEN VsysXpath(category)
              ELSE x1
        x3 == IF S.DeviceType = "panorama" /\ Len(devicegroup) > 0
              THEN DeviceGroupXpath(devicegroup[1]) \o "/" \o category
              ELSE x2
    IN x3

\* if description != "" { xmlBody += "<description>..</description>" }
Description(description) ==
    IF description # "" THEN "<description>" \o description \o "</description>" ELSE ""

----------------------------------------------------------------------------
(* panos.go: devices and device-groups *)

\* NotPanorama without the check
NotPanoramaUnchecked == FALSE

NotPanorama == S.DeviceType = "panos" \/ S.DeviceType # "panorama"

Devices ==
    /\ p # Nil
    /\ List([op |-> "Devices"],
            IF S.DeviceType # "panorama"
            THEN Err("devices can only be listed from a Panorama device") ELSE Nil,
            GetRequest("/config/mgt-config/devices"))

DeviceGroups ==
    /\ p # Nil
    /\ List([op |-> "DeviceGroups"],
            IF S.DeviceType # "panorama"
            THEN Err("device-groups can only be listed from a Panorama device") ELSE Nil,
            GetRequest("/config/devices/entry//device-group"))

\* the element of CreateDeviceGroup; devices is Nil (a nil slice) or Some(serials)
DeviceGroupBody(name, description, devices) ==
    (IF S.DeviceType = "panorama" THEN "<entry name=\"" \o name \o "\">" ELSE "")
    \o (IF devices # Nil
        THEN "<devices>"
             \o Wrapped([i \in 1..Len(devices[1]) |-> TrimSpace(devices[1][i])],
                        "<entry name=\"", "\"/>")
             \o "</devices>"
        ELSE "")
    \o Description(description)
    \o "</entry>"

CreateDeviceGroup(name, description, devices) ==
    /\ p # Nil
    /\ Mutate([op |-> "CreateDeviceGroup", name |-> name, description |-> description,
               devices |-> devices],
              IF NotPanorama
              THEN Err("you must be connected to a Panorama device when creating a device-group")
              ELSE Nil,
              SetRequest(IF S.DeviceType = "panorama" THEN Localhost \o "/device-group" ELSE "",
                         DeviceGroupBody(name, description, devices)))

DeleteDeviceGroup(name) ==
    /\ p # Nil
    /\ Mutate([op |-> "DeleteDeviceGroup", name |-> name],
              IF NotPanorama
              THEN Err("you must be connected to a Panorama device when deleting a device-group")
              ELSE Nil,
              DeleteRequest("post", IF S.DeviceType = "panorama"
                                    THEN DeviceGroupXpath(name) ELSE ""))

\* the registration of a serial under Panorama management
RegisterRequest(serial) ==
    SetRequest("/config/mgt-config/devices", "<entry name=\"" \o serial \o "\"/>")

\* the attachment of a registered serial to a device-group
AttachRequest(serial, dg) ==
    SetRequest(DeviceGroupXpath(dg), "<devices><entry name=\"" \o serial \o "\"/></devices>")

AddDevice(serial, devicegroup) ==
    /\ p # Nil
    /\ LET c == [op |-> "AddDevice", serial |-> serial, devicegroup |-> devicegroup]
       IN IF NotPanorama
          THEN Reject(c, Err("you must be connected to Panorama when adding devices"))
          ELSE IF Len(devicegroup) <= 0
          THEN First(c, RegisterRequest(serial), "reply")
          ELSE First(c, RegisterRequest(serial), "register")

\* AddDeviceRegister with the registration's outcome dropped
AddDeviceRegisterIgnoresError(resp) ==
    /\ pc = "register"
    /\ recv' = Append(recv, resp)
    /\ Send(AttachRequest(call.serial, call.devicegroup[1]), "reply")
    /\ UNCHANGED <<p, call, locals>>

\* AddDevice with a device-group: the response to the registration; the
\* 200 ms sleep before the second request takes no step of its own
AddDeviceRegister(resp) ==
    /\ pc = "register"
    /\ recv' = Append(recv, resp)
    /\ IF MutationError(resp) # Nil
       THEN Return(MutationError(resp), Nil) /\ UNCHANGED sent
       ELSE Send(AttachRequest(call.serial, call.devicegroup[1]), "reply")
    /\ UNCHANGED <<p, call, locals>>

SetPanoramaServer(ip) ==
    /\ p # Nil
    /\ Mutate([op |-> "SetPanoramaServer", ip |-> ip],
              IF S.DeviceType = "panorama" /\ S.Panorama = TRUE
              THEN Err("you must be connected to a non-Panorama device in order to configure a Panorama server")
              ELSE Nil,
              Request("post", Nil,
                      [type |-> "config", action |-> "set",
                       xpath |-> Localhost \o "/deviceconfig/system",
                       key |-> S.Key,
                       element |-> "<panorama-server>" \o ip \o "</panorama-server>"]))

\* RemoveDeviceXpath with the xpath of the registration in both cases
RemoveDeviceXpathUnregisters(serial, devicegroup) ==
    IF S.DeviceType = "panorama"
    THEN "/config/mgt-config/devices" \o EntryNamed(serial)
    ELSE ""

RemoveDeviceXpath(serial, devicegroup) ==
    LET x0 == ""
        x1 == IF S.DeviceType = "panorama" /\ Len(devicegroup) <= 0
              THEN "/config/mgt-config/devices" \o EntryNamed(serial)
              ELSE x0
        x2 == IF S.DeviceType = "panorama" /\ Len(devicegroup) > 0
              THEN DeviceGroupXpath(devicegroup[1]) \o "/devices" \o EntryNamed(serial)
              ELSE x1
    IN x2

RemoveDevice(serial, devicegroup) ==
    /\ p # Nil
    /\ Mutate([op |-> "RemoveDevice", serial |-> serial, devicegroup |-> devicegroup],
              IF NotPanorama
              THEN Err("you must be connected to Panorama when removing devices")
              ELSE Nil,
              DeleteRequest("post", RemoveDeviceXpath(serial, devicegroup)))

----------------------------------------------------------------------------
(* panos.go: tags *)

TagsXpath ==
    LET x0 == "/config/devices/entry//tag"
        x1 == IF S.DeviceType = "panos" /\ S.Panorama = TRUE
              THEN "/config/panorama//tag"
              ELSE x0
        x2 == IF S.DeviceType = "panorama" THEN "/config/devices/entry//tag" ELSE x1
    IN x2

Tags ==
    /\ p # Nil
    /\ List([op |-> "Tags"], Nil, GetRequest(TagsXpath))

TagBody(color, comments) ==
    "<color>" \o TagColorCode(color) \o "</color>"
    \o (IF comments # "" THEN "<comments>" \o comments \o "</comments>" ELSE "")

CreateTag(name, color, comments, devicegroup) ==
    /\ p # Nil
    /\ Mutate([op |-> "CreateTag", name |-> name, color |-> color, comments |-> comments,
               devicegroup |-> devicegroup],
              NeedsDeviceGroup(devicegroup),
              SetRequest(ObjectXpath("tag", name, devicegroup), TagBody(color, comments)))

DeleteTag(name, devicegroup) ==
    /\ p # Nil
    /\ Mutate([op |-> "DeleteTag", name |-> name, devicegroup |-> devicegroup],
              NeedsDeviceGroup(devicegroup),
              DeleteRequest("get", ObjectXpath("tag", name, devicegroup)))

----------------------------------------------------------------------------
(* panos.go: ApplyTag and RemoveTag *)

\* the categories the loops of ApplyTag and RemoveTag go through, in order
Categories == <<"address", "address-group", "service", "service-group">>

\* the local of each category
CategoryLocal == <<"adObj", "agObj", "sObj", "sgObj">>

\* Services and ServiceGroups list as Addresses and AddressGroups do
Services(devicegroup) == GetRequest(ListXpath("service", devicegroup))
ServiceGroups(devicegroup) == GetRequest(ListXpath("service-group", devicegroup))

\* xmlBody of ApplyTag: one <member> per comma-separated tag, trimmed
ApplyTagBody(tag) ==
    LET tags == Split(tag, ",")
    IN "<tag>"
       \o Wrapped([i \in 1..Len(tags) |-> TrimSpace(tags[i])], "<member>", "</member>")
       \o "</tag>"

\* TagRequest with the xpath of the first block pasted into the other three
TagRequestAddressOnly(op, tag, object, base, category) ==
    IF op = "ApplyTag"
    THEN EditRequest(base \o "/address" \o EntryNamed(object) \o "/tag", ApplyTagBody(tag))
    ELSE DeleteRequest("post", base \o "/address" \o EntryNamed(object)
                               \o "/tag/member[text()='" \o tag \o "']")

\* the request ApplyTag or RemoveTag sends for an object found in category
TagRequest(op, tag, object, base, category) ==
    IF op = "ApplyTag"
    THEN EditRequest(base \o "/" \o category \o EntryNamed(object) \o "/tag", ApplyTagBody(tag))
    ELSE DeleteRequest("post", base \o "/" \o category \o EntryNamed(object)
                               \o "/tag/member[text()='" \o tag \o "']")

\* for _, a := range obj.X { if object == a.Name {...} }: does a body run?
Lists(obj, object) == \E k \in 1..Len(obj[1]) : obj[1][k].Name = object

\* Resolve with an error for an object that no loop found
RECURSIVE ResolveNotFoundIsError(_, _, _, _, _)
ResolveNotFoundIsError(i, op, tag, object, devicegroup) ==
    IF i > Len(Categories) THEN [do |-> "return", err |-> Err("object not found")]
    ELSE LET obj == locals'[CategoryLocal[i]]
         IN IF obj = Nil THEN [do |-> "panic"]
            ELSE IF ~Lists(obj, object)
            THEN ResolveNotFoundIsError(i + 1, op, tag, object, devicegroup)
            ELSE IF S.DeviceType = "panos"
            THEN [do |-> "send",
                  req |-> TagRequest(op, tag, object,
                                     Localhost \o "/vsys/entry[@name='vsys1']", Categories[i])]
            ELSE IF S.DeviceType = "panorama" /\ Len(devicegroup) > 0
            THEN [do |-> "send",
                  req |-> TagRequest(op, tag, object,
                                     DeviceGroupXpath(devicegroup[1]), Categories[i])]
            ELSE IF S.DeviceType = "panorama" /\ Len(devicegroup) <= 0
            THEN [do |-> "return", err |-> MissingDeviceGroup]
            ELSE ResolveNotFoundIsError(i + 1, op, tag, object, devicegroup)

\* the four loops from category i on: each dereferences its listing (a nil
\* listing panics), and the first entry named object decides the outcome
RECURSIVE Resolve(_, _, _, _, _)
Resolve(i, op, tag, object, devicegroup) ==
    IF i > Len(Categories) THEN [do |-> "return", err |-> Nil]
    ELSE LET obj == locals'[CategoryLocal[i]]
         IN IF obj = Nil THEN [do |-> "panic"]
            ELSE IF ~Lists(obj, object) THEN Resolve(i + 1, op, tag, object, devicegroup)
            ELSE IF S.DeviceType = "panos"
            THEN [do |-> "send",
                  req |-> TagRequest(op, tag, object,
                                     Localhost \o "/vsys/entry[@name='vsys1']", Categories[i])]
            ELSE IF S.DeviceType = "panorama" /\ Len(devicegroup) > 0
            THEN [do |-> "send",
                  req |-> TagRequest(op, tag, object,
                                     DeviceGroupXpath(devicegroup[1]), Categories[i])]
            ELSE IF S.DeviceType = "panorama" /\ Len(devicegroup) <= 0
            THEN [do |-> "return", err |-> MissingDeviceGroup]
            ELSE Resolve(i + 1, op, tag, object, devicegroup)

ApplyTag(tag, object, devicegroup) ==
    /\ p # Nil
    /\ First([op |-> "ApplyTag", tag |-> tag, object |-> object, devicegroup |-> devicegroup],
             GetRequest(ListXpath("address", <<>>)), "adObj")

RemoveTag(tag, object, devicegroup) ==
    /\ p # Nil
    /\ First([op |-> "RemoveTag", tag |-> tag, object |-> object, devicegroup |-> devicegroup],
             GetRequest(ListXpath("address", <<>>)), "adObj")

\* adObj, _ := p.Addresses(): the error is dropped; then p.AddressGroups() is called
TagAddresses(resp) ==
    /\ pc = "adObj"
    /\ recv' = Append(recv, resp)
    /\ locals' = [locals EXCEPT !.adObj = ListingValue("Addresses", resp)]
    /\ Send(GetRequest(ListXpath("address-group", <<>>)), "agObj")
    /\ UNCHANGED <<p, call>>

\* agObj, _ := p.AddressGroups(); then p.Services() is called
TagAddressGroups(resp) ==
    /\ pc = "agObj"
    /\ recv' = Append(recv, resp)
    /\ locals' = [locals EXCEPT !.agObj = ListingValue("AddressGroups", resp)]
    /\ Send(Services(<<>>), "sObj")
    /\ UNCHANGED <<p, call>>

\* sObj, _ := p.Services(); then p.ServiceGroups() is called
TagServices(resp) ==
    /\ pc = "sObj"
    /\ recv' = Append(recv, resp)
    /\ locals' = [locals EXCEPT !.sObj = ListingValue("Services", resp)]
    /\ Send(ServiceGroups(<<>>), "sgObj")
    /\ UNCHANGED <<p, call>>

\* sgObj, _ := p.ServiceGroups(); then the four loops run
TagServiceGroups(resp) ==
    /\ pc = "sgObj"
    /\ recv' = Append(recv, resp)
    /\ locals' = [locals EXCEPT !.sgObj = ListingValue("ServiceGroups", resp)]
    /\ LET r == Resolve(1, call.op, call.tag, call.object, call.devicegroup)
       IN CASE r.do = "panic" -> ret' = Panicked /\ pc' = "crashed" /\ UNCHANGED <<sent, peer, alone>>
            [] r.do = "return" -> Return(r.err, Nil) /\ UNCHANGED sent
            [] r.do = "send" -> Send(r.req, "reply")
    /\ UNCHANGED <<p, call>>

----------------------------------------------------------------------------
(* panos.go: commits *)

\* Commit with the type every other operation of the package sends
CommitAsConfig ==
    /\ p # Nil
    /\ Mutate([op |-> "Commit"], Nil,
              Request("get", Nil, [type |-> "config", cmd |-> "<commit></commit>", key |-> S.Key]))

Commit ==
    /\ p # Nil
    /\ Mutate([op |-> "Commit"], Nil,
              Request("get", Nil, [type |-> "commit", cmd |-> "<commit></commit>", key |-> S.Key]))

\* cmd of CommitAll: set only on a Panorama session
CommitAllCmd(devicegroup, devices) ==
    LET c0 == ""
        c1 == IF S.DeviceType = "panorama" /\ Len(devices) <= 0
              THEN "<commit-all><shared-policy><device-group><entry name=\"" \o devicegroup
                   \o "\"/></device-group></shared-policy></commit-all>"
              ELSE c0
        c2 == IF S.DeviceType = "panorama" /\ Len(devices) > 0
              THEN "<commit-all><shared-policy><device-group><name>" \o devicegroup
                   \o "</name><devices>" \o Wrapped(devices, "<entry name=\"", "\"/>")
                   \o "</devices></device-group></shared-policy></commit-all>"
              ELSE c1
    IN c2

CommitAll(devicegroup, devices) ==
    /\ p # Nil
    /\ Mutate([op |-> "CommitAll", devicegroup |-> devicegroup, devices |-> devices], Nil,
              Request("get", Nil,
                      [type |-> "commit", action |-> "all",
                       cmd |-> CommitAllCmd(devicegroup, devices), key |-> S.Key]))

----------------------------------------------------------------------------
(* the address file: addresses and address groups *)

Addresses(devicegroup) ==
    /\ p # Nil
    /\ List([op |-> "Addresses", devicegroup |-> devicegroup],
            ListRejects(devicegroup),
            GetRequest(ListXpath("address", devicegroup)))

AddressGroups(devicegroup) ==
    /\ p # Nil
    /\ List([op |-> "AddressGroups", devicegroup |-> devicegroup],
            ListRejects(devicegroup),
            GetRequest(ListXpath("address-group", devicegroup)))

\* AddressBody with the description appended without its test
AddressBodyAlwaysDescribes(addrtype, address, description) ==
    (CASE addrtype = "ip" -> "<ip-netmask>" \o address \o "</ip-netmask>"
       [] addrtype = "range" -> "<ip-range>" \o address \o "</ip-range>"
       [] addrtype = "fqdn" -> "<fqdn>" \o address \o "</fqdn>"
       [] OTHER -> "")
    \o "<description>" \o description \o "</description>"

\* switch addrtype {...}: no case, no element, for any other addrtype
AddressBody(addrtype, address, description) ==
    (CASE addrtype = "ip" -> "<ip-netmask>" \o address \o "</ip-netmask>"
       [] addrtype = "range" -> "<ip-range>" \o address \o "</ip-range>"
       [] addrtype = "fqdn" -> "<fqdn>" \o address \o "</fqdn>"
       [] OTHER -> "")
    \o Description(description)

CreateAddress(name, addrtype, address, description, devicegroup) ==
    /\ p # Nil
    /\ Mutate([op |-> "CreateAddress", name |-> name, addrtype |-> addrtype,
               address |-> address, description |-> description, devicegroup |-> devicegroup],
              NeedsDeviceGroup(devicegroup),
              SetRequest(ObjectXpath("address", name, devicegroup),
                         AddressBody(addrtype, address, description)))

CreateSharedAddress(name, addrtype, address, description) ==
    /\ p # Nil
    /\ Mutate([op |-> "CreateSharedAddress", name |-> name, addrtype |-> addrtype,
               address |-> address, description |-> description],
              OnlyPanorama("you can only create shared objects when connected to a Panorama device"),
              SetRequest(SharedXpath("address", name),
                         AddressBody(addrtype, address, description)))

StaticBody(members, description) ==
    LET m == Split(members, ",")
    IN "<static>"
       \o Wrapped([i \in 1..Len(m) |-> TrimSpace(m[i])], "<member>", "</member>")
       \o "</static>"
       \o Description(description)

NoMembers == Err("you cannot create a static address group without any members")

CreateStaticGroup(name, members, description, devicegroup) ==
    /\ p # Nil
    /\ Mutate([op |-> "CreateStaticGroup", name |-> name, members |-> members,
               description |-> description, devicegroup |-> devicegroup],
              IF members = "" THEN NoMembers ELSE NeedsDeviceGroup(devicegroup),
              SetRequest(ObjectXpath("address-group", name, devicegroup),
                         StaticBody(members, description)))

CreateSharedStaticGroup(name, members, description) ==
    /\ p # Nil
    /\ Mutate([op |-> "CreateSharedStaticGroup", name |-> name, members |-> members,
               description |-> description],
              IF members = "" THEN NoMembers
              ELSE OnlyPanorama("you can only create shared objects when connected to a Panorama device"),
              SetRequest(SharedXpath("address-group", name), StaticBody(members, description)))

DynamicBody(criteria, description) ==
    "<dynamic><filter>" \o criteria \o "</filter></dynamic>" \o Description(description)

NoFilter == Err("you cannot create a dynamic address group without any filter")

CreateDynamicGroup(name, criteria, description, devicegroup) ==
    /\ p # Nil
    /\ Mutate([op |-> "CreateDynamicGroup", name |-> name, criteria |-> criteria,
               description |-> description, devicegroup |-> devicegroup],
              IF criteria = "" THEN NoFilter ELSE NeedsDeviceGroup(devicegroup),
              SetRequest(ObjectXpath("address-group", name, devicegroup),
                         DynamicBody(criteria, description)))

CreateSharedDynamicGroup(name, criteria, description) ==
    /\ p # Nil
    /\ Mutate([op |-> "CreateSharedDynamicGroup", name |-> name, criteria |-> criteria,
               description |-> description],
              IF criteria = "" THEN NoFilter
              ELSE OnlyPanorama("you can only create shared objects when connected to a Panorama device"),
              SetRequest(SharedXpath("address-group", name), DynamicBody(criteria, description)))

DeleteAddress(name, devicegroup) ==
    /\ p # Nil
    /\ Mutate([op |-> "DeleteAddress", name |-> name, devicegroup |-> devicegroup],
              NeedsDeviceGroup(devicegroup),
              DeleteRequest("get", ObjectXpath("address", name, devicegroup)))

DeleteSharedAddress(name) ==
    /\ p # Nil
    /\ Mutate([op |-> "DeleteSharedAddress", name |-> name],
              OnlyPanorama("you can only remove shared objects when connected to a Panorama device"),
              DeleteRequest("get", SharedXpath("address", name)))

DeleteAddressGroup(name, devicegroup) ==
    /\ p # Nil
    /\ Mutate([op |-> "DeleteAddressGroup", name |-> name, devicegroup |-> devicegroup],
              NeedsDeviceGroup(devicegroup),
              DeleteRequest("get", ObjectXpath("address-group", name, devicegroup)))

DeleteSharedAddressGroup(name) ==
    /\ p # Nil
    /\ Mutate([op |-> "DeleteSharedAddressGroup", name |-> name],
              OnlyPanorama("you can only create shared objects when connected to a Panorama device"),
              DeleteRequest("get", SharedXpath("address-group", name)))

----------------------------------------------------------------------------
(* The client *)

Descriptions == {"", "note", "R&D"}
AddrTypes == {"ip", "range", "fqdn", "host"}
AddressArgs == {"10.0.0.5/32"}
MemberArgs == {"", "web, db"}
CriteriaArgs == {"", "'t1' and 't2'"}
ColorArgs == {"Red", "Pink"}
DeviceListArgs == {Nil, Some(<<"0001">>)}
CommitDeviceArgs == {<<>>, <<"0001", "0002">>}

\* what the device holds after a create operation: the entry named in the
\* xpath, with the element of the request as its children
StoredAddresses ==
    {Entry(n, AddressBody(t, a, d)) :
        n \in ObjectArgs, t \in AddrTypes, a \in AddressArgs, d \in Descriptions}

StoredTags == {Entry(n, TagBody(c, m)) : n \in TagNames, c \in ColorArgs, m \in Descriptions}

\* the responses to the request of a listing operation: Addresses and Tags
\* are also answered with the entries that were created
ListingResponsesTo(op) ==
    ListingResponses
    \cup (CASE op = "Addresses" ->
                 {Envelope("success", "19", [entries |-> l]) :
                     l \in SeqsUpTo(StoredAddresses, MaxEntries)}
            [] op = "Tags" ->
                 {Envelope("success", "19", [entries |-> l]) :
                     l \in SeqsUpTo(StoredTags, MaxTags)}
            [] OTHER -> {})

\* the response to the request of a listing operation
ListingReply(resp) ==
    /\ pc = "list"
    /\ resp \in ListingResponsesTo(call.op)
    /\ recv' = Append(recv, resp)
    /\ Return(ListingError(resp), ListingValue(call.op, resp))
    /\ UNCHANGED <<p, call, sent, locals>>

Init ==
    /\ p = Nil
    /\ pc = "idle"
    /\ call = NoCall
    /\ sent = <<>>
    /\ recv = <<>>
    /\ locals = NoLocals
    /\ ret = Pending
    /\ peer = IdleFrame
    /\ alone = Nil

Next ==
    \/ \E h \in Hosts : NewSession(h, "admin", "secret")
    \/ \E r \in KeygenResponses : NewSessionKeygen(r)
    \/ \E r \in InfoResponses : NewSessionInfo(r)
    \/ \E r \in StatusResponses : NewSessionStatus(r)
    \/ Devices
    \/ DeviceGroups
    \/ \E n \in {"dg1"}, d \in Descriptions, l \in DeviceListArgs : CreateDeviceGroup(n, d, l)
    \/ \E n \in {"dg1"} : DeleteDeviceGroup(n)
    \/ \E s \in SerialArgs, dg \in DeviceGroupArgs : AddDevice(s, dg)
    \/ \E r \in MutationResponses : AddDeviceRegister(r)
    \/ \E ip \in {"10.0.0.1"} : SetPanoramaServer(ip)
    \/ \E s \in SerialArgs, dg \in DeviceGroupArgs : RemoveDevice(s, dg)
    \/ Tags
    \/ \E n \in TagNames, c \in ColorArgs, m \in Descriptions, dg \in DeviceGroupArgs :
          CreateTag(n, c, m, dg)
    \/ \E n \in TagNames, dg \in DeviceGroupArgs : DeleteTag(n, dg)
    \/ \E t \in ApplyTagArgs, o \in ObjectArgs, dg \in DeviceGroupArgs : ApplyTag(t, o, dg)
    \/ \E t \in RemoveTagArgs, o \in ObjectArgs, dg \in DeviceGroupArgs : RemoveTag(t, o, dg)
    \/ \E r \in ListingResponses : TagAddresses(r)
    \/ \E r \in ListingResponses : TagAddressGroups(r)
    \/ \E r \in ListingResponses : TagServices(r)
    \/ \E r \in ListingResponses : TagServiceGroups(r)
    \/ Commit
    \/ \E dg \in {"dg1"}, ds \in CommitDeviceArgs : CommitAll(dg, ds)
    \/ \E dg \in DeviceGroupArgs : Addresses(dg)
    \/ \E dg \in DeviceGroupArgs : AddressGroups(dg)
    \/ \E n \in ObjectArgs, t \in AddrTypes, a \in AddressArgs, d \in Descriptions,
          dg \in DeviceGroupArgs : CreateAddress(n, t, a, d, dg)
    \/ \E n \in ObjectArgs, t \in AddrTypes, a \in AddressArgs, d \in Descriptions :
          CreateSharedAddress(n, t, a, d)
    \/ \E n \in ObjectArgs, m \in MemberArgs, d \in Descriptions, dg \in DeviceGroupArgs :
          CreateStaticGroup(n, m, d, dg)
    \/ \E n \in ObjectArgs, m \in MemberArgs, d \in Descriptions :
          CreateSharedStaticGroup(n, m, d)
    \/ \E n \in ObjectArgs, c \in CriteriaArgs, d \in Descriptions, dg \in DeviceGroupArgs :
          CreateDynamicGroup(n, c, d, dg)
    \/ \E n \in ObjectArgs, c \in CriteriaArgs, d \in Descriptions :
          CreateSharedDynamicGroup(n, c, d)
    \/ \E n \in ObjectArgs, dg \in DeviceGroupArgs : DeleteAddress(n, dg)
    \/ \E n \in ObjectArgs : DeleteSharedAddress(n)
    \/ \E n \in ObjectArgs, dg \in DeviceGroupArgs : DeleteAddressGroup(n, dg)
    \/ \E n \in ObjectArgs : DeleteSharedAddressGroup(n)
    \/ \E r \in MutationResponses : Reply(r)
    \/ \E r \in ListingResponsesTo("Addresses") \cup ListingResponsesTo("Tags") : ListingReply(r)
    \/ Discard

Spec == Init /\ [][Next]_vars

----------------------------------------------------------------------------
(* Two invocations on one session.  A method's request object, query map and
   decoded listings are locals of its call; the session is only read.  The
   caller may run a second method on the same session before the first has
   returned: the two frames take their steps in any order. *)

\* the sessions NewSession can return
Sessions ==
    {BuildSession(h, k, [platform |-> f, model |-> "PA-VM", serial |-> "0007", swversion |-> "7.0.1"], d) :
        h \in Hosts, k \in Keys, f \in Platforms, d \in StatusTexts}

\* the responses the device gives while two invocations run
ConcurrentMutationResponses ==
    {TransportFailure, Envelope("error", "7", [msg |-> "failed"]),
     Envelope("success", "20", [msg |-> "command succeeded"])}

ConcurrentListingResponses ==
    {Envelope("success", "19", [entries |-> l]) : l \in {<<>>, <<Entry("web", "")>>}}

\* the invocation has run from its start to its end with no other beside it:
\* what it sent, received and returned is kept, and the frame is free again
RunAlone ==
    /\ pc = "done"
    /\ alone = Nil
    /\ peer = IdleFrame
    /\ alone' = Some(Frame)
    /\ pc' = "idle"
    /\ call' = NoCall
    /\ sent' = <<>>
    /\ recv' = <<>>
    /\ locals' = NoLocals
    /\ ret' = Pending
    /\ UNCHANGED <<p, peer>>

\* the scheduler takes the running invocation off and lets the other one run
Switch ==
    /\ alone # Nil
    /\ peer' = Frame
    /\ pc' = peer.pc
    /\ call' = peer.call
    /\ sent' = peer.sent
    /\ recv' = peer.recv
    /\ locals' = peer.locals
    /\ ret' = peer.ret
    /\ UNCHANGED <<p, alone>>

ConcurrentInit ==
    /\ p \in {Some(s) : s \in {x \in Sessions : x.Platform # "" /\ x.Panorama = FALSE}}
    /\ pc = "idle"
    /\ call = NoCall
    /\ sent = <<>>
    /\ recv = <<>>
    /\ locals = NoLocals
    /\ ret = Pending
    /\ peer = IdleFrame
    /\ alone = Nil

ConcurrentNext ==
    \/ \E s \in SerialArgs : AddDevice(s, <<"dg1">>)
    \/ \E r \in ConcurrentMutationResponses : AddDeviceRegister(r)
    \/ \E t \in ApplyTagArgs, o \in ObjectArgs : ApplyTag(t, o, <<"dg1">>)
    \/ \E r \in ConcurrentListingResponses : TagAddresses(r)
    \/ \E r \in ConcurrentListingResponses : TagAddressGroups(r)
    \/ \E r \in ConcurrentListingResponses : TagServices(r)
    \/ \E r \in ConcurrentListingResponses : TagServiceGroups(r)
    \/ \E r \in ConcurrentMutationResponses : Reply(r)
    \/ Discard
    \/ RunAlone
    \/ Switch

ConcurrentSpec == ConcurrentInit /\ [][ConcurrentNext]_vars

----------------------------------------------------------------------------
(* Vocabulary of the properties *)

Done == pc = "done"
Crashed == pc = "crashed"
Ended == Done \/ Crashed

\* the response arrived and its whole body is well-formed XML
Parsed(resp) == resp.Error = Nil /\ resp.Body.kind = "xml" /\ ~BadEntry(resp.Body)

\* a request failed: no response, no parseable body, or a status other than success
Failed(resp) == ~Parsed(resp) \/ resp.Body.Status # "success"

Succeeded(resp) == Parsed(resp) /\ resp.Body.Status = "success"

\* the invocation returned a non-nil error
ReturnedError == Done /\ ret.state = "returned" /\ ret.err # Nil

\* the invocation returned a nil error
ReturnedNil == Done /\ ret.state = "returned" /\ ret.err = Nil

EndsWith(s, suffix) ==
    /\ Len(suffix) <= Len(s)
    /\ SubSeq(s, Len(s) - Len(suffix) + 1, Len(s)) = suffix

StartsWith(s, prefix) ==
    /\ Len(prefix) <= Len(s)
    /\ SubSeq(s, 1, Len(prefix)) = prefix

OnPanorama == p # Nil /\ S.DeviceType = "panorama"
OnPanos == p # Nil /\ S.DeviceType = "panos"

NoDeviceGroup == "devicegroup" \in DOMAIN call /\ call.devicegroup = <<>>

TagOps == {"ApplyTag", "RemoveTag"}

\* the i-th listing of a tag operation came back and holds an entry named as the object
ListingHas(i) ==
    /\ i <= Len(recv)
    /\ Succeeded(recv[i])
    /\ \E k \in 1..Len(recv[i].Body.result.entries) :
           recv[i].Body.result.entries[k].Name = call.object

\* how the xpath of the mutation of a tag operation ends, after the category
TagSuffix ==
    "/entry[@name='" \o call.object \o "']/tag"
    \o (IF call.op = "RemoveTag" THEN "/member[text()='" \o call.tag \o "']" ELSE "")

\* the requests of the invocation that change the configuration
Mutations == {i \in 1..Len(sent) : ActionOf(sent[i]) \in {"set", "edit", "delete"}}

----------------------------------------------------------------------------
(* C1 *)

\* the step of NewSession a response belongs to fails: any step on a
\* transport failure or an unparseable body, the first two on a status too
StepFails(i, resp) == ~Parsed(resp) \/ (i <= 2 /\ resp.Body.Status # "success")

\* the error NewSession owes its caller for the failing response of a step
IsErrorOf(err, resp) ==
    IF resp.Error # Nil THEN err = resp.Error
    ELSE IF resp.Body.kind # "xml" THEN err # Nil /\ ~StartsWith(err[1], "error code")
    ELSE err # Nil /\ StartsWith(err[1], "error code " \o resp.Body.Code \o ":")

\* C1: NewSession sends keygen, system-info and panorama-status in that
\* order; the first failing step ends it with a nil session and that step's
\* error and nothing is sent after it; a session comes only with a nil error.
C1_NewSessionFirstError ==
    call.op = "NewSession" =>
        /\ Len(sent) <= 3
        /\ Len(sent) >= 1 => Contains(sent[1].uri, "type=keygen")
        /\ Len(sent) >= 2 => Contains(sent[2].uri, "cmd=<show><system><info>")
        /\ Len(sent) >= 3 => Contains(sent[3].uri, "cmd=<show><panorama-status>")
        /\ \A i \in 1..Len(recv) :
              IF StepFails(i, recv[i])
              THEN /\ Len(sent) = i
                   /\ Done
                   /\ ret.val = Nil
                   /\ IsErrorOf(ret.err, recv[i])
                   /\ p = Nil
              ELSE Len(sent) > i \/ (i = 3 /\ ReturnedNil /\ ret.val # Nil)
        /\ ret.val # Nil => ret.err = Nil /\ p = ret.val
        /\ Done => (ret.val = Nil) # (ret.err = Nil)

\* NewSession failed at its second step, after a successful keygen
C1_Witness ==
    /\ call.op = "NewSession"
    /\ Len(recv) = 2
    /\ Succeeded(recv[1])
    /\ Parsed(recv[2]) /\ recv[2].Body.Status = "error"
    /\ ReturnedError

----------------------------------------------------------------------------
(* C2 *)

ObjectOps ==
    {"Devices", "DeviceGroups", "Tags", "Addresses", "AddressGroups",
     "CreateDeviceGroup", "CreateTag", "CreateAddress", "CreateSharedAddress",
     "CreateStaticGroup", "CreateSharedStaticGroup", "CreateDynamicGroup",
     "CreateSharedDynamicGroup", "DeleteDeviceGroup", "DeleteTag", "DeleteAddress",
     "DeleteSharedAddress", "DeleteAddressGroup", "DeleteSharedAddressGroup",
     "ApplyTag", "RemoveTag", "AddDevice", "RemoveDevice", "Commit", "CommitAll"}

\* C2: for every object operation and commit, an envelope that parses with a
\* status other than success makes the operation return a non-nil error that
\* carries the envelope's code, and the operation whose last request was
\* answered by a success envelope returns nil.
C2_StatusClassification ==
    (call.op \in ObjectOps /\ Ended) =>
        /\ \A i \in 1..Len(recv) :
              (Parsed(recv[i]) /\ recv[i].Body.Status # "success") =>
                  /\ ReturnedError
                  /\ Contains(ret.err[1], "error code " \o recv[i].Body.Code \o ":")
        /\ (/\ Len(recv) = Len(sent)
            /\ Len(recv) >= 1
            /\ Succeeded(recv[Len(recv)])
            /\ call.op \in TagOps => Len(recv) = 5
            /\ ret.state = "returned") => ret.err = Nil

----------------------------------------------------------------------------
(* C3 *)

ScopedOps ==
    {"CreateAddress", "CreateStaticGroup", "CreateDynamicGroup", "CreateTag",
     "DeleteAddress", "DeleteAddressGroup", "DeleteTag"}

\* C3: on a Panorama session the create and delete operations of addresses,
\* address groups and tags, called without a device-group, return an error
\* and send no request.
C3_PanoramaNeedsDeviceGroup ==
    (call.op \in ScopedOps /\ OnPanorama /\ NoDeviceGroup) =>
        /\ sent = <<>>
        /\ recv = <<>>
        /\ ReturnedError

\* CreateAddress on a Panorama session, no device-group given, has returned
C3_Witness ==
    /\ call.op = "CreateAddress"
    /\ call.addrtype = "ip"
    /\ OnPanorama
    /\ NoDeviceGroup
    /\ Done

----------------------------------------------------------------------------
(* C4 *)

\* C4: on a Panorama session ApplyTag and RemoveTag, called without a
\* device-group, return the missing-device-group error before any request is
\* sent, whatever the object name.
C4_TagNeedsDeviceGroupFirst ==
    (call.op \in TagOps /\ OnPanorama /\ NoDeviceGroup) =>
        /\ sent = <<>>
        /\ Done
        /\ ret.err = MissingDeviceGroup

----------------------------------------------------------------------------
(* C5 *)

AddressOps ==
    {"Addresses", "CreateAddress", "CreateSharedAddress", "DeleteAddress", "DeleteSharedAddress"}

AddressGroupOps ==
    {"AddressGroups", "CreateStaticGroup", "CreateSharedStaticGroup", "CreateDynamicGroup",
     "CreateSharedDynamicGroup", "DeleteAddressGroup", "DeleteSharedAddressGroup"}

TagObjectOps == {"Tags", "CreateTag", "DeleteTag"}

ListOps == {"Addresses", "AddressGroups", "Tags"}

\* the category an operation works on
CategoryOf(op) ==
    CASE op \in AddressOps -> "address"
      [] op \in AddressGroupOps -> "address-group"
      [] OTHER -> "tag"

\* the xpath of request i is whole: it is rooted at /config, and it ends in
\* the category (a listing) or in the entry of the category named in the call
\* (a create or delete); a tag operation lists the four categories in turn
\* and then addresses the tag child of the entry named as the object
WholeXpath(i) ==
    LET x == XpathOf(sent[i])
        cat == CategoryOf(call.op)
    IN /\ TypeOf(sent[i]) = "config"
       /\ x # ""
       /\ StartsWith(x, "/config/")
       /\ IF call.op \in ListOps THEN EndsWith(x, "/" \o cat)
          ELSE IF call.op \in TagOps
          THEN CASE i = 1 -> EndsWith(x, "/address")
                 [] i = 2 -> EndsWith(x, "/address-group")
                 [] i = 3 -> EndsWith(x, "/service")
                 [] i = 4 -> EndsWith(x, "/service-group")
                 [] OTHER -> \E c \in {"address", "address-group", "service", "service-group"} :
                                 EndsWith(x, "/" \o c \o TagSuffix)
          ELSE EndsWith(x, "/" \o cat \o "/entry[@name='" \o call.name \o "']")

\* C5: every operation on address, address-group and tag objects, on a panos
\* or Panorama session, managed or not, shared or device-specific, with or
\* without a device-group, either sends config requests whose xpath is
\* non-empty, whole, and holds the segment of its category, or sends nothing
\* and returns an error; the missing-device-group error is returned exactly
\* to an invocation on Panorama without a device-group.
C5_XpathWholeOrError ==
    call.op \in AddressOps \cup AddressGroupOps \cup TagObjectOps \cup TagOps =>
        /\ S.DeviceType \in {"panos", "panorama"}
        /\ \A i \in 1..Len(sent) : WholeXpath(i)
        /\ sent = <<>> => ReturnedError
        /\ (Done /\ ret.err = MissingDeviceGroup) => (OnPanorama /\ NoDeviceGroup)
        /\ (call.op \in ScopedOps /\ OnPanorama /\ NoDeviceGroup /\ ret.err # NoMembers
            /\ ret.err # NoFilter) => (Done /\ ret.err = MissingDeviceGroup)

\* DeleteTag on a Panorama session with a device-group has sent its request
C5_Witness ==
    /\ call.op = "DeleteTag"
    /\ OnPanorama
    /\ call.devicegroup = <<"dg1">>
    /\ Len(sent) = 1
    /\ Contains(XpathOf(sent[1]), "/device-group/entry[@name='dg1']/tag/")

----------------------------------------------------------------------------
(* C6 *)

\* C6: no error is swallowed: when one of the four listing requests issued
\* inside ApplyTag or RemoveTag fails, ApplyTag/RemoveTag returns a non-nil
\* error; it does not go on, return nil or crash.
C6_ListingErrorReturned ==
    (call.op \in TagOps /\ Ended) =>
        ((\E i \in 1..Len(recv) : i <= 4 /\ Failed(recv[i])) => ReturnedError)

----------------------------------------------------------------------------
(* C7 *)

\* the first category, in the order address, address-group, service,
\* service-group, whose listing holds the object (0 when none does)
FirstListed ==
    IF \E i \in 1..4 : ListingHas(i)
    THEN CHOOSE i \in 1..4 : ListingHas(i) /\ \A j \in 1..(i - 1) : ~ListingHas(j)
    ELSE 0

CategoryName(i) ==
    CASE i = 1 -> "address"
      [] i = 2 -> "address-group"
      [] i = 3 -> "service"
      [] OTHER -> "service-group"

----------------------------------------------------------------------------
(* C8 *)

\* C8: when the name given to ApplyTag is found in several categories, the
\* tags are applied to all of them: ApplyTag, having returned nil, has sent
\* one edit request for every category whose listing holds the name.
C8_AllMatchesTagged ==
    (call.op = "ApplyTag" /\ ReturnedNil) =>
        \A i \in 1..4 :
            ListingHas(i) =>
                \E k \in 1..Len(sent) :
                    /\ ActionOf(sent[k]) = "edit"
                    /\ EndsWith(XpathOf(sent[k]), "/" \o CategoryName(i) \o TagSuffix)

----------------------------------------------------------------------------
(* C9 *)

\* C9: AddDevice with a device-group on a Panorama session sends two set
\* requests in a fixed order, the registration of the serial under
\* /config/mgt-config/devices and then its attachment to the device-group;
\* the second is sent exactly when the first came back with a success
\* envelope, and neither is sent again.
C9_RegisterThenAttach ==
    (call.op = "AddDevice" /\ OnPanorama /\ call.devicegroup # <<>>) =>
        /\ Len(sent) \in {1, 2}
        /\ \A i \in 1..Len(sent) : ActionOf(sent[i]) = "set" /\ TypeOf(sent[i]) = "config"
        /\ XpathOf(sent[1]) = "/config/mgt-config/devices"
        /\ Contains(Param(QueryOf(sent[1]), "element"), "\"" \o call.serial \o "\"")
        /\ Len(sent) = 2 =>
              /\ Succeeded(recv[1])
              /\ EndsWith(XpathOf(sent[2]),
                          "/device-group/entry[@name='" \o call.devicegroup[1] \o "']")
              /\ Contains(Param(QueryOf(sent[2]), "element"),
                          "<devices><entry name=\"" \o call.serial \o "\"")
        /\ (Len(recv) >= 1 /\ Succeeded(recv[1])) => Len(sent) = 2
        /\ (Len(recv) >= 1 /\ Failed(recv[1])) => (Len(sent) = 1 /\ ReturnedError)
        /\ ReturnedNil => (Len(recv) = 2 /\ Succeeded(recv[2]))

\* both requests of AddDevice with a device-group were sent and answered with success
C9_Witness ==
    /\ call.op = "AddDevice"
    /\ call.devicegroup # <<>>
    /\ Len(sent) = 2
    /\ Len(recv) = 2
    /\ ReturnedNil

----------------------------------------------------------------------------
(* C10 *)

\* C10: no operation on a session retries: an invocation never sends the same
\* request twice, and once one of its requests has failed (transport failure,
\* unparseable body or a status other than success) it sends no further
\* request and returns the failure to its caller.
C10_NoRetryFailFast ==
    call.op \in ObjectOps \cup {"SetPanoramaServer"} =>
        /\ \A i, j \in 1..Len(sent) : i # j => sent[i] # sent[j]
        /\ \A i \in 1..Len(recv) : Failed(recv[i]) => (Len(sent) = i /\ ReturnedError)

----------------------------------------------------------------------------
(* C11 *)

CommitOps == {"Commit", "CommitAll"}

\* C11: Commit and CommitAll send one request of type commit per invocation
\* and return as soon as its response is classified: nothing is sent after
\* it, whatever the response, and no request of another type (a job-status
\* query) is ever part of the invocation.
C11_CommitFireAndForget ==
    call.op \in CommitOps =>
        /\ Len(sent) = 1
        /\ TypeOf(sent[1]) = "commit"
        /\ Param(QueryOf(sent[1]), "cmd") # "" => StartsWith(Param(QueryOf(sent[1]), "cmd"), "<commit")
        /\ Len(recv) <= 1
        /\ Len(recv) = 1 <=> Done
        /\ Done =>
              /\ ret.state = "returned"
              /\ Succeeded(recv[1]) <=> ret.err = Nil

\* CommitAll was answered with an error envelope and has returned
C11_Witness ==
    /\ call.op = "CommitAll"
    /\ Len(sent) = 1
    /\ Len(recv) = 1
    /\ Parsed(recv[1]) /\ recv[1].Body.Status = "error"
    /\ ReturnedError

----------------------------------------------------------------------------
(* C12 *)

\* C12: a session returned by NewSession has deviceType "panorama" exactly
\* when the platform family the device reported is "m", and "panos" for any
\* other family, "vm" and the empty string included; the caller never holds
\* a session of another deviceType.
C12_DeviceTypeFromPlatform ==
    /\ p # Nil =>
          /\ S.DeviceType \in {"panos", "panorama"}
          /\ S.DeviceType = "panorama" <=> S.Platform = "m"
    /\ (call.op = "NewSession" /\ ret.val # Nil) =>
          /\ ret.val[1].Platform = recv[2].Body.result.platform
          /\ ret.val[1].DeviceType = "panorama" <=> recv[2].Body.result.platform = "m"
          /\ ret.val[1].DeviceType = "panos" <=> recv[2].Body.result.platform # "m"

\* NewSession returned a session for a device of platform family "vm"
C12_Witness ==
    /\ call.op = "NewSession"
    /\ ReturnedNil
    /\ ret.val # Nil
    /\ recv[2].Body.result.platform = "vm"
    /\ ret.val[1].DeviceType = "panos"

----------------------------------------------------------------------------
(* C13 *)

\* C13: in NewSession the managed-by-Panorama flag is true exactly when the
\* text of the panorama-status result holds the marker ": yes"; a third
\* response that parses, whatever its status and whether or not it holds a
\* marker, ends NewSession with a session and a nil error.
C13_PanoramaFlagFromMarker ==
    (call.op = "NewSession" /\ Len(recv) = 3 /\ Parsed(recv[3])) =>
        /\ ReturnedNil
        /\ ret.val # Nil
        /\ p = ret.val
        /\ ret.val[1].Panorama = Contains(recv[3].Body.result.data, ": yes")
        /\ ret.val[1].Panorama \in BOOLEAN

\* the panorama-status request was answered with an error status and no
\* marker, and NewSession returned a session whose flag is false
C13_Witness ==
    /\ call.op = "NewSession"
    /\ Len(recv) = 3
    /\ Parsed(recv[3])
    /\ recv[3].Body.Status = "error"
    /\ ~Contains(recv[3].Body.result.data, ": yes")
    /\ ReturnedNil
    /\ ret.val # Nil
    /\ ret.val[1].Panorama = FALSE

----------------------------------------------------------------------------
(* C14 *)

\* the invocation returned what it made of its last response, an envelope
\* with a status other than success
ReturnedForErrorEnvelope ==
    /\ call.op \in ObjectOps
    /\ Done
    /\ Len(recv) >= 1
    /\ Len(recv) = Len(sent)
    /\ call.op \in TagOps => Len(recv) = 5
    /\ Parsed(recv[Len(recv)])
    /\ recv[Len(recv)].Body.Status # "success"

\* C14: the error returned for an envelope with a status other than success
\* holds the envelope's raw code and, for a code of the table (400, 403,
\* 1..22), the message of the table (for 7, "Object not present ..."); for a
\* code outside the table it holds the raw code and a generic message that is
\* not empty.
C14_CodedErrorMessage ==
    ReturnedForErrorEnvelope =>
        LET code == recv[Len(recv)].Body.Code
            head == "error code " \o code \o ": "
        IN /\ ret.err # Nil
           /\ StartsWith(ret.err[1], head)
           /\ code = "7" => Contains(ret.err[1], "Object not present")
           /\ code \in DOMAIN errorCodes => ret.err[1] = head \o errorCodes[code]
           /\ code \notin DOMAIN errorCodes => Len(ret.err[1]) > Len(head)

----------------------------------------------------------------------------
(* C15 *)

\* the Address that CreateAddress(name, addrtype, address, description) describes
AddressRecord(name, addrtype, address, description) ==
    [Name |-> name,
     IPAddress |-> IF addrtype = "ip" THEN address ELSE "",
     IPRange |-> IF addrtype = "range" THEN address ELSE "",
     FQDN |-> IF addrtype = "fqdn" THEN address ELSE "",
     Description |-> description]

\* entry k of the listing the invocation received
ListedEntry(k) == recv[1].Body.result.entries[k]

\* the listing operation op got a response whose envelope says success
Listed(op) ==
    /\ call.op = op
    /\ Done
    /\ Len(recv) = 1
    /\ recv[1].Error = Nil
    /\ recv[1].Body.kind = "xml"
    /\ recv[1].Body.Status = "success"

\* C15: round trip: for every record a create operation accepts
\* (CreateAddress with kind ip, range or fqdn, a value and a description;
\* CreateTag with a name, a color name and comments), parsing a listing
\* response that holds the element body the create operation built yields a
\* record equal field for field to the arguments.
C15_CreateListRoundTrip ==
    /\ Listed("Addresses") =>
          \A k \in 1..Len(recv[1].Body.result.entries) :
              \A t \in {"ip", "range", "fqdn"}, a \in AddressArgs, d \in Descriptions :
                  ListedEntry(k).Inner = AddressBody(t, a, d) =>
                      /\ ReturnedNil
                      /\ ret.val # Nil
                      /\ ret.val[1][k] = AddressRecord(ListedEntry(k).Name, t, a, d)
    /\ Listed("Tags") =>
          \A k \in 1..Len(recv[1].Body.result.entries) :
              \A c \in ColorArgs, m \in Descriptions :
                  ListedEntry(k).Inner = TagBody(c, m) =>
                      /\ ReturnedNil
                      /\ ret.val # Nil
                      /\ ret.val[1][k] = [Name |-> ListedEntry(k).Name, Color |-> c, Comments |-> m]

----------------------------------------------------------------------------
(* C16 *)

\* the element that wraps the address of an address object of a kind
KindElement(addrtype) ==
    CASE addrtype = "ip" -> "ip-netmask"
      [] addrtype = "range" -> "ip-range"
      [] addrtype = "fqdn" -> "fqdn"

\* C16: CreateAddress on a standalone session with addrtype ip, range or fqdn
\* sends one set request: its element is <ip-netmask>, <ip-range> or <fqdn>
\* around the address, followed by a <description> element exactly when the
\* description is not empty, and its xpath is the vsys1 address path ending
\* in /address/entry[@name='<name>'].
C16_CreateAddressRequest ==
    (call.op = "CreateAddress" /\ OnPanos /\ call.addrtype \in {"ip", "range", "fqdn"}) =>
        /\ Len(sent) = 1
        /\ TypeOf(sent[1]) = "config"
        /\ ActionOf(sent[1]) = "set"
        /\ sent[1].method = "post"
        /\ Param(QueryOf(sent[1]), "key") = S.Key
        /\ Param(QueryOf(sent[1]), "element") =
              "<" \o KindElement(call.addrtype) \o ">" \o call.address
              \o "</" \o KindElement(call.addrtype) \o ">"
              \o (IF call.description = "" THEN ""
                  ELSE "<description>" \o call.description \o "</description>")
        /\ XpathOf(sent[1]) =
              "/config/devices/entry[@name='localhost.localdomain']/vsys/entry[@name='vsys1']"
              \o "/address/entry[@name='" \o call.name \o "']"

\* CreateAddress of an ip address with no description on a standalone session
C16_Witness ==
    /\ call.op = "CreateAddress"
    /\ OnPanos
    /\ call.addrtype = "ip"
    /\ call.description = ""
    /\ Len(sent) = 1
    /\ Param(QueryOf(sent[1]), "element") = "<ip-netmask>10.0.0.5/32</ip-netmask>"

----------------------------------------------------------------------------
(* C17 *)

SharedOps ==
    {"CreateSharedAddress", "CreateSharedStaticGroup", "CreateSharedDynamicGroup",
     "DeleteSharedAddress", "DeleteSharedAddressGroup"}

\* a group is to be created with no member or with no filter
EmptyGroupArg ==
    \/ "members" \in DOMAIN call /\ call.members = ""
    \/ "criteria" \in DOMAIN call /\ call.criteria = ""

----------------------------------------------------------------------------
(* C18 *)

PanoramaOnlyOps ==
    {"Devices", "DeviceGroups", "CreateDeviceGroup", "DeleteDeviceGroup", "AddDevice",
     "RemoveDevice"}

\* C18: Devices, DeviceGroups, CreateDeviceGroup, DeleteDeviceGroup, AddDevice
\* and RemoveDevice, called on a session whose deviceType is not panorama,
\* return an error and send no request.
C18_PanoramaOnlyOps ==
    (call.op \in PanoramaOnlyOps /\ S.DeviceType # "panorama") =>
        /\ sent = <<>>
        /\ recv = <<>>
        /\ ReturnedError
        /\ ret.val = Nil

\* AddDevice on a standalone session was refused
C18_Witness ==
    /\ call.op = "AddDevice"
    /\ OnPanos
    /\ ReturnedError

----------------------------------------------------------------------------
(* C19 *)

\* C19: Addresses and AddressGroups take a device-group only on Panorama: on
\* a Panorama session with a device-group the xpath of the request is that
\* of the category inside the device-group; on a Panorama session without
\* one the request has the all-objects wildcard xpath and the call is not
\* refused; on any other session a device-group makes the call return an
\* error without a request.
C19_ListingDeviceGroup ==
    call.op \in {"Addresses", "AddressGroups"} =>
        LET cat == IF call.op = "Addresses" THEN "address" ELSE "address-group"
        IN /\ (OnPanorama /\ call.devicegroup # <<>>) =>
                 /\ Len(sent) = 1
                 /\ XpathOf(sent[1]) =
                       "/config/devices/entry[@name='localhost.localdomain']/device-group/entry[@name='"
                       \o call.devicegroup[1] \o "']/" \o cat
           /\ (OnPanorama /\ call.devicegroup = <<>>) =>
                 /\ Len(sent) = 1
                 /\ XpathOf(sent[1]) = "/config/devices/entry//" \o cat
                 /\ (Done /\ Succeeded(recv[1])) => (ReturnedNil /\ ret.val # Nil)
           /\ (~OnPanorama /\ call.devicegroup # <<>>) =>
                 /\ sent = <<>>
                 /\ recv = <<>>
                 /\ ReturnedError
                 /\ ret.val = Nil
           /\ \A i \in 1..Len(sent) : ActionOf(sent[i]) = "get" /\ TypeOf(sent[i]) = "config"

\* AddressGroups of a device-group on a Panorama session returned its listing
C19_Witness ==
    /\ call.op = "AddressGroups"
    /\ OnPanorama
    /\ call.devicegroup = <<"dg1">>
    /\ ReturnedNil
    /\ ret.val # Nil

----------------------------------------------------------------------------
(* C20 *)

\* where AddDevice registers a serial under Panorama management
Registration(serial) == "/config/mgt-config/devices/entry[@name='" \o serial \o "']"

\* C20: RemoveDevice with a device-group only takes the device out of that
\* device-group: it sends one delete request, whose xpath is the entry of the
\* serial inside the named device-group, and no request of it addresses the
\* registration under /config/mgt-config/devices, which AddDevice wrote.
C20_RemoveFromGroupOnly ==
    (call.op = "RemoveDevice" /\ OnPanorama /\ call.devicegroup # <<>>) =>
        /\ Len(sent) = 1
        /\ ActionOf(sent[1]) = "delete"
        /\ XpathOf(sent[1]) =
              "/config/devices/entry[@name='localhost.localdomain']/device-group/entry[@name='"
              \o call.devicegroup[1] \o "']/devices/entry[@name='" \o call.serial \o "']"
        /\ \A i \in 1..Len(sent) :
              /\ ~StartsWith(XpathOf(sent[i]), "/config/mgt-config")
              /\ ~StartsWith(Registration(call.serial), XpathOf(sent[i]))

\* RemoveDevice with a device-group succeeded
C20_Witness ==
    /\ call.op = "RemoveDevice"
    /\ OnPanorama
    /\ call.devicegroup = <<"dg1">>
    /\ Len(sent) = 1
    /\ ReturnedNil

----------------------------------------------------------------------------
(* C21 *)

\* C21: SetPanoramaServer needs a device that is not a Panorama: on every
\* session whose deviceType is panorama it returns the 'must be connected to
\* a non-Panorama device' error and sends no request, and on every
\* standalone session it sends exactly one set request that carries the
\* <panorama-server> element.
C21_SetPanoramaServerOnPanos ==
    call.op = "SetPanoramaServer" =>
        /\ OnPanorama =>
              /\ sent = <<>>
              /\ Done
              /\ ret.err = Err("you must be connected to a non-Panorama device in order to configure a Panorama server")
        /\ OnPanos =>
              /\ Len(sent) = 1
              /\ ActionOf(sent[1]) = "set"
              /\ Param(QueryOf(sent[1]), "element")
                    = "<panorama-server>" \o call.ip \o "</panorama-server>"

----------------------------------------------------------------------------
(* C22 *)

\* C22: the session is immutable after construction: no step of any
\* operation (list, create, delete, tag, device, commit), whether the
\* operation succeeds or fails, changes a field of the session the caller
\* holds.
C22_SessionImmutable == [][p # Nil => p' = p]_vars

\* an operation that sent a request on a session has failed
C22_Witness ==
    /\ p # Nil
    /\ call.op \in ObjectOps
    /\ Len(sent) >= 1
    /\ ReturnedError
    /\ \A f \in {"Host", "Key", "URI", "Platform", "Model", "Serial", "SoftwareVersion",
                 "DeviceType", "Panorama"} : f \in DOMAIN S

----------------------------------------------------------------------------
(* C23: two invocations on one session *)

IsPrefix(s, t) == Len(s) <= Len(t) /\ s = SubSeq(t, 1, Len(s))

\* frame f has gone as far as the invocation that ran alone went on the same
\* call and the same responses: it has sent the same requests, and where the
\* responses are all there it has ended with the same result
AsAlone(f) ==
    LET a == alone[1]
    IN IF f.recv = a.recv
       THEN f.sent = a.sent /\ f.ret = a.ret /\ f.pc = a.pc
       ELSE /\ f.pc \notin {"idle", "done", "crashed"}
            /\ f.ret = Pending
            /\ Len(f.sent) = Len(f.recv) + 1
            /\ IsPrefix(f.sent, a.sent)

----------------------------------------------------------------------------
(* C24 *)

\* C24: Tags returns one Tag per entry of the listing, in listing order, and
\* the Color of each Tag is the color name whose code is the code of that
\* entry, whatever the other entries hold: an entry with no color code, or
\* with a code outside the color table, gets an empty Color.
C24_TagColorPerEntry ==
    (Listed("Tags") /\ ReturnedNil) =>
        /\ ret.val # Nil
        /\ Len(ret.val[1]) = Len(recv[1].Body.result.entries)
        /\ \A k \in 1..Len(recv[1].Body.result.entries) :
              /\ ret.val[1][k].Name = ListedEntry(k).Name
              /\ \A c \in ColorArgs, m \in Descriptions :
                    ListedEntry(k).Inner = TagBody(c, m) =>
                        ret.val[1][k].Color = (IF c \in DOMAIN tagColors THEN c ELSE "")

----------------------------------------------------------------------------
(* C25 *)

\* how many of the three address elements open in an element body
AddressElements(body) ==
    Cardinality({e \in {"<ip-netmask>", "<ip-range>", "<fqdn>"} : Contains(body, e)})

\* C25: CreateAddress and CreateSharedAddress send a set request only for an
\* addrtype among ip, range and fqdn: every element they send holds exactly
\* one of <ip-netmask>, <ip-range>, <fqdn>, and a call with any other
\* addrtype returns an error and sends nothing.
C25_AddrTypeChecked ==
    call.op \in {"CreateAddress", "CreateSharedAddress"} =>
        /\ \A i \in 1..Len(sent) :
              /\ ActionOf(sent[i]) = "set"
              /\ AddressElements(Param(QueryOf(sent[i]), "element")) = 1
        /\ call.addrtype \notin {"ip", "range", "fqdn"} => (sent = <<>> /\ ReturnedError)

----------------------------------------------------------------------------
(* C26 *)

\* C26: CommitAll sends a request only on a Panorama session, and the cmd of
\* every request it sends is not empty and names the device-group given
\* (and, when serials are given, holds one <entry> per serial, in argument
\* order); on a standalone session no request with an empty cmd is sent.
C26_CommitAllOnPanoramaOnly ==
    call.op = "CommitAll" =>
        /\ ~OnPanorama => sent = <<>>
        /\ \A i \in 1..Len(sent) :
              LET cmd == Param(QueryOf(sent[i]), "cmd")
              IN /\ cmd # ""
                 /\ Contains(cmd, call.devicegroup)
                 /\ call.devices # <<>> =>
                       Contains(cmd, "<devices>"
                                     \o Wrapped(call.devices, "<entry name=\"", "\"/>")
                                     \o "</devices>")

----------------------------------------------------------------------------
(* C27 *)

\* the four listings of a tag operation succeeded and none holds the object
NothingListed ==
    /\ Len(recv) >= 4
    /\ \A i \in 1..4 : Succeeded(recv[i]) /\ ~ListingHas(i)

\* C27: when all four listings succeed and no address, address-group,
\* service or service-group has the name of the object, ApplyTag and
\* RemoveTag send no mutation request and return nil, on standalone and on
\* Panorama sessions, with or without a device-group.
C27_NoMatchReturnsNil ==
    (call.op \in TagOps /\ NothingListed) =>
        /\ Len(recv) = 4
        /\ Len(sent) = 4
        /\ Mutations = {}
        /\ ReturnedNil

\* ApplyTag on a Panorama session without a device-group found nothing to tag
C27_Witness ==
    /\ call.op = "ApplyTag"
    /\ OnPanorama
    /\ NoDeviceGroup
    /\ NothingListed
    /\ Done

----------------------------------------------------------------------------
(* C28 *)

\* C28: AddDevice with a device-group has no rollback: when the registration
\* succeeds and the attachment fails, AddDevice returns the error of the
\* attachment and sends no compensating delete: the two set requests are
\* all it sent.
C28_NoRollback ==
    (/\ call.op = "AddDevice"
     /\ call.devicegroup # <<>>
     /\ Len(recv) >= 2
     /\ Succeeded(recv[1])
     /\ Failed(recv[2])) =>
        /\ Len(recv) = 2
        /\ Len(sent) = 2
        /\ \A i \in 1..Len(sent) : ActionOf(sent[i]) = "set"
        /\ XpathOf(sent[1]) = "/config/mgt-config/devices"
        /\ ReturnedError
        /\ IsErrorOf(ret.err, recv[2])

\* the registration succeeded, the attachment was answered with an error envelope
C28_Witness ==
    /\ call.op = "AddDevice"
    /\ Len(recv) = 2
    /\ Succeeded(recv[1])
    /\ Parsed(recv[2]) /\ recv[2].Body.Status = "error"
    /\ ReturnedError

====
